---- MODULE Spec2Model ----
(***************************************************************************)
(* Envelope budget: the ledger core of budget_app (app.py, services.py).   *)
(*                                                                         *)
(* Money is a Decimal in the code.  Here an amount is an integer number of *)
(* thousandths of a currency unit ("mills"), so that amounts with three    *)
(* decimals exist and the two-decimal quantization of the column type is   *)
(* a real rounding step: 1.00 is 1000, 0.01 is 10, 0.005 is 5.             *)
(*                                                                         *)
(* A month string "YYYY-MM" is the record [year |-> YYYY, month |-> MM].   *)
(* A timestamp (datetime.now) is read at the granularity of the month.     *)
(* Python's None is the empty tuple, a present value x is <<x>>.           *)
(***************************************************************************)
EXTENDS Integers, Sequences, FiniteSets, TLC

VARIABLES
    envelope,       \* table envelope: the committed rows, in id order
    transaction,    \* table transaction: the committed rows, in id order
    system_state,   \* table system_state: the committed rows, in id order
    clock,          \* the month date.today() falls in
    obj,            \* the Envelope instance the last call worked on, as the
                    \* entity method left it (before any commit); None if none
    last,           \* the last call: its name, arguments, outcome, and the
                    \* store (or instance) it started from
    origin          \* the store the behaviour started from

vars == <<envelope, transaction, system_state, clock, obj, last, origin>>

----------------------------------------------------------------------------
(* Bounds of the model *)

\* Rows of table envelope, rows of table transaction, rows of both together
\* that the calls write.
MaxEnvelopes == 2
MaxTransactions == 2
MaxRows == 3
\* Rows the calls write on a store that starts with a ledger.
MaxLedgerRows == 2
\* Months the clock of the application ranges over.
NumMonths == 2
\* Months the clock ranges over when the funding clock is examined alone.
FundingMonths == 4
\* Calls made on one Envelope instance.
MaxCalls == 2

----------------------------------------------------------------------------
(* Values *)

None == <<>>
Some(x) == <<x>>

\* One hundredth of a currency unit, in mills (TWOPLACES = Decimal("0.01")).
Cent == 10

Abs(v) == IF v >= 0 THEN v ELSE 0 - v

\* Decimal.quantize(TWOPLACES, rounding=ROUND_HALF_UP): to the nearest cent,
\* a half rounded away from zero.
quantize(v) ==
    IF v >= 0 THEN ((v + (Cent \div 2)) \div Cent) * Cent
              ELSE 0 - (((Abs(v) + (Cent \div 2)) \div Cent) * Cent)

\* Faulty variant: the value is written as given.
process_bind_param_unrounded(value) == value

\* RoundedNumeric: what a column value becomes when it is written and when it
\* is read.  The three money columns are NOT NULL, so the None branch of the
\* code is never taken by the calls modelled here.
process_bind_param(value) == quantize(value)
process_result_value(value) == quantize(value)

----------------------------------------------------------------------------
(* Months *)

FirstMonth == [year |-> 2024, month |-> 12]

NextMonth(m) ==
    IF m.month = 12 THEN [year |-> m.year + 1, month |-> 1]
                    ELSE [year |-> m.year, month |-> m.month + 1]

RECURSIVE MonthsFrom(_, _)
MonthsFrom(m, n) == IF n = 0 THEN <<>> ELSE <<m>> \o MonthsFrom(NextMonth(m), n - 1)

\* The months the clock ranges over, in calendar order.
MonthSeq == MonthsFrom(FirstMonth, NumMonths)
Months == {MonthSeq[i] : i \in DOMAIN MonthSeq}

\* get_current_month: date.today().strftime("%Y-%m").
get_current_month == clock

\* Faulty variant: the years are dropped, only the month numbers compared.
month_difference_ignores_year(start_month, end_month) ==
    end_month.month - start_month.month

\* Faulty variant: the distance between the months, never negative.
month_difference_abs(start_month, end_month) ==
    Abs((end_month.year - start_month.year) * 12
        + (end_month.month - start_month.month))

\* _month_difference: split both strings at "-", read the two integers.
_month_difference(start_month, end_month) ==
    (end_month.year - start_month.year) * 12 + (end_month.month - start_month.month)

----------------------------------------------------------------------------
(* Envelope: the entity methods, on an instance                            *)
(* [id, name, balance, base_amount, mode, is_active, archived_at,          *)
(*  transactions].  A method returns the exception it raised ("" if none)  *)
(* and the instance as it left it.                                         *)

NewTransaction(amount, note, type) ==
    [id |-> 0, envelope_id |-> 0, amount |-> amount, note |-> note,
     type |-> type]

\* Faulty variant: a spend larger than the balance is refused.
spend_checks_balance(self, amount, note) ==
    IF amount <= 0 \/ amount > self.balance
    THEN [raised |-> "ValueError", self |-> self]
    ELSE [raised |-> "",
          self |-> [self EXCEPT
                      !.balance = self.balance - amount,
                      !.transactions = Append(@, NewTransaction(amount, note, "spend"))]]

\* Faulty variant: only a negative amount is refused, zero goes through.
spend_allows_zero(self, amount, note) ==
    IF amount < 0
    THEN [raised |-> "ValueError", self |-> self]
    ELSE [raised |-> "",
          self |-> [self EXCEPT
                      !.balance = self.balance - amount,
                      !.transactions = Append(@, NewTransaction(amount, note, "spend"))]]

\* Faulty variant: the new Transaction is assigned as the whole list instead
\* of appended to it.
spend_replaces_transactions(self, amount, note) ==
    IF amount <= 0
    THEN [raised |-> "ValueError", self |-> self]
    ELSE [raised |-> "",
          self |-> [self EXCEPT
                      !.balance = self.balance - amount,
                      !.transactions = <<NewTransaction(amount, note, "spend")>>]]

\* Faulty variant: the new balance is rounded to the cent in the method.
spend_rounds_balance(self, amount, note) ==
    IF amount <= 0
    THEN [raised |-> "ValueError", self |-> self]
    ELSE [raised |-> "",
          self |-> [self EXCEPT
                      !.balance = quantize(self.balance - amount),
                      !.transactions = Append(@, NewTransaction(amount, note, "spend"))]]

spend(self, amount, note) ==
    IF amount <= 0
    THEN [raised |-> "ValueError", self |-> self]
    ELSE [raised |-> "",
          self |-> [self EXCEPT
                      !.balance = self.balance - amount,
                      !.transactions = Append(@, NewTransaction(amount, note, "spend"))]]

deposit(self, amount, note) ==
    IF amount <= 0
    THEN [raised |-> "ValueError", self |-> self]
    ELSE [raised |-> "",
          self |-> [self EXCEPT
                      !.balance = self.balance + amount,
                      !.transactions = Append(@, NewTransaction(amount, note, "deposit"))]]

\* Faulty variant: a rollover envelope gets one base amount whatever months is.
apply_funding_one_month(self, months) ==
    IF months <= 0
    THEN [raised |-> "ValueError", self |-> self]
    ELSE IF self.mode = "reset"
         THEN [raised |-> "", self |-> [self EXCEPT !.balance = self.base_amount]]
         ELSE [raised |-> "",
               self |-> [self EXCEPT !.balance = self.balance + self.base_amount]]

\* Faulty variant: a reset envelope gets base_amount x months.
apply_funding_reset_multiplies(self, months) ==
    IF months <= 0
    THEN [raised |-> "ValueError", self |-> self]
    ELSE IF self.mode = "reset"
         THEN [raised |-> "",
               self |-> [self EXCEPT !.balance = self.base_amount * months]]
         ELSE [raised |-> "",
               self |-> [self EXCEPT !.balance = self.balance + (self.base_amount * months)]]

\* Faulty variant: only a negative month count is refused, zero goes through.
apply_funding_allows_zero(self, months) ==
    IF months < 0
    THEN [raised |-> "ValueError", self |-> self]
    ELSE IF self.mode = "reset"
         THEN [raised |-> "", self |-> [self EXCEPT !.balance = self.base_amount]]
         ELSE [raised |-> "",
               self |-> [self EXCEPT !.balance = self.balance + (self.base_amount * months)]]

\* Faulty variant: the funding is also logged as a deposit transaction.
apply_funding_logs_deposit(self, months) ==
    IF months <= 0
    THEN [raised |-> "ValueError", self |-> self]
    ELSE IF self.mode = "reset"
         THEN [raised |-> "",
               self |-> [self EXCEPT
                   !.balance = self.base_amount,
                   !.transactions = Append(@, NewTransaction(self.base_amount, None, "deposit"))]]
         ELSE [raised |-> "",
               self |-> [self EXCEPT
                   !.balance = self.balance + (self.base_amount * months),
                   !.transactions = Append(@, NewTransaction(self.base_amount * months, None, "deposit"))]]

apply_funding(self, months) ==
    IF months <= 0
    THEN [raised |-> "ValueError", self |-> self]
    ELSE IF self.mode = "reset"
         THEN [raised |-> "", self |-> [self EXCEPT !.balance = self.base_amount]]
         ELSE [raised |-> "",
               self |-> [self EXCEPT !.balance = self.balance + (self.base_amount * months)]]

\* Faulty variant: every call records the archival time anew.
archive_overwrites(self, now) ==
    [raised |-> "", self |-> [self EXCEPT !.archived_at = Some(now)]]

archive(self, now) ==
    IF self.archived_at = None
    THEN [raised |-> "", self |-> [self EXCEPT !.archived_at = Some(now)]]
    ELSE [raised |-> "", self |-> self]

----------------------------------------------------------------------------
(* The store and the session                                               *)

Store == [envelope |-> envelope, transaction |-> transaction,
          system_state |-> system_state]

EmptyStore == [envelope |-> <<>>, transaction |-> <<>>, system_state |-> <<>>]

\* A row of table transaction as the session reads it.
LoadTransaction(row) == [row EXCEPT !.amount = process_result_value(row.amount)]

\* Envelope.transactions of the instance with this id: its rows, in id order.
TransactionsOf(db, envelope_id) ==
    LET rows == SelectSeq(db.transaction, LAMBDA t : t.envelope_id = envelope_id)
    IN  [i \in DOMAIN rows |-> LoadTransaction(rows[i])]

\* A row of table envelope as the session reads it: an Envelope instance.
LoadEnvelope(db, row) ==
    [id |-> row.id, name |-> row.name,
     balance |-> process_result_value(row.balance),
     base_amount |-> process_result_value(row.base_amount),
     mode |-> row.mode, is_active |-> row.is_active,
     archived_at |-> row.archived_at,
     transactions |-> TransactionsOf(db, row.id)]

\* Faulty variant: an id that names no row yields the first row, when the
\* table has one.
session_get_falls_back(db, envelope_id) ==
    IF \E i \in DOMAIN db.envelope : db.envelope[i].id = envelope_id
    THEN LET i == CHOOSE j \in DOMAIN db.envelope : db.envelope[j].id = envelope_id
         IN  Some(LoadEnvelope(db, db.envelope[i]))
    ELSE IF db.envelope # <<>>
    THEN Some(LoadEnvelope(db, db.envelope[1]))
    ELSE None

\* db.session.get(Envelope, envelope_id): the instance, or None.
session_get(db, envelope_id) ==
    IF \E i \in DOMAIN db.envelope : db.envelope[i].id = envelope_id
    THEN LET i == CHOOSE j \in DOMAIN db.envelope : db.envelope[j].id = envelope_id
         IN  Some(LoadEnvelope(db, db.envelope[i]))
    ELSE None

\* The row an instance is written as: the money columns pass through
\* process_bind_param; a new instance (id 0) takes the next id.
EnvelopeRow(self, id) ==
    [id |-> id, name |-> self.name,
     balance |-> process_bind_param(self.balance),
     base_amount |-> process_bind_param(self.base_amount),
     mode |-> self.mode, is_active |-> self.is_active,
     archived_at |-> self.archived_at]

RECURSIVE InsertTransactions(_, _, _, _)
\* INSERT the instance's pending Transaction objects (id 0), in list order.
InsertTransactions(table, pending, envelope_id, now) ==
    IF pending = <<>> THEN table
    ELSE LET t == Head(pending)
             row == [id |-> Len(table) + 1, envelope_id |-> envelope_id,
                     amount |-> process_bind_param(t.amount), note |-> t.note,
                     type |-> t.type]
         IN  InsertTransactions(Append(table, row), Tail(pending), envelope_id, now)

\* The stored rows of an instance brought in line with Envelope.transactions
\* (cascade "all, delete-orphan"): a row whose Transaction is still in the
\* list is written with the attributes the object has now (UPDATE), a row
\* whose Transaction has left the list is removed (DELETE); the rows of other
\* envelopes stay.
SyncTransactions(table, self, envelope_id) ==
    LET held(r) == \E i \in DOMAIN self.transactions : self.transactions[i].id = r.id
        kept == SelectSeq(table, LAMBDA r : r.envelope_id # envelope_id \/ held(r))
    IN  [i \in DOMAIN kept |->
            IF kept[i].envelope_id # envelope_id THEN kept[i]
            ELSE LET k == CHOOSE j \in DOMAIN self.transactions :
                              self.transactions[j].id = kept[i].id
                     t == self.transactions[k]
                 IN  [id |-> kept[i].id, envelope_id |-> envelope_id,
                      amount |-> process_bind_param(t.amount), note |-> t.note,
                      type |-> t.type]]

\* The flush of one instance: INSERT or UPDATE its row; cascade over
\* Envelope.transactions: INSERT the pending ones, then UPDATE or DELETE the
\* stored ones.
flush(db, self, now) ==
    LET id == IF self.id = 0 THEN Len(db.envelope) + 1 ELSE self.id
        pending == SelectSeq(self.transactions, LAMBDA t : t.id = 0)
        stored == Len(db.transaction)
        inserted == InsertTransactions(db.transaction, pending, id, now)
    IN  [db EXCEPT
           !.envelope =
               IF self.id = 0
               THEN Append(db.envelope, EnvelopeRow(self, id))
               ELSE [i \in DOMAIN db.envelope |->
                        IF db.envelope[i].id = id THEN EnvelopeRow(self, id)
                                                  ELSE db.envelope[i]],
           !.transaction =
               SyncTransactions(SubSeq(inserted, 1, stored), self, id)
                   \o SubSeq(inserted, stored + 1, Len(inserted))]

RECURSIVE commit(_, _, _)
\* db.session.commit() with these instances new or dirty in the session.
commit(db, instances, now) ==
    IF instances = <<>> THEN db
    ELSE commit(flush(db, Head(instances), now), Tail(instances), now)

----------------------------------------------------------------------------
(* Strings: a str is a sequence of Unicode code points                     *)

\* The code points str.isspace() holds of, which str.strip() removes: tab,
\* line feed, vertical tab, form feed, carriage return, the separators
\* U+001C-U+001F, space, U+0085, U+00A0, U+1680, U+2000-U+200A, U+2028,
\* U+2029, U+202F, U+205F, U+3000.
Whitespace ==
    {9, 10, 11, 12, 13, 28, 29, 30, 31, 32, 133, 160, 5760,
     8192, 8193, 8194, 8195, 8196, 8197, 8198, 8199, 8200, 8201, 8202,
     8232, 8233, 8239, 8287, 12288}

\* str.isspace() of one character.
isspace(c) == c \in Whitespace

RECURSIVE lstrip(_)
lstrip(s) == IF s # <<>> /\ isspace(Head(s)) THEN lstrip(Tail(s)) ELSE s

RECURSIVE rstrip(_)
rstrip(s) ==
    IF s # <<>> /\ isspace(s[Len(s)]) THEN rstrip(SubSeq(s, 1, Len(s) - 1)) ELSE s

\* Faulty variant: only the leading whitespace is removed.
strip_leading_only(s) == lstrip(s)

\* str.strip()
strip(s) == rstrip(lstrip(s))

----------------------------------------------------------------------------
(* services.py and the archive handler: result [raised, db, obj]           *)

add_envelope(db, name, base_amount, mode, now) ==
    IF name = <<>> \/ strip(name) = <<>>
    THEN [raised |-> "ValueError", db |-> db, obj |-> None]
    ELSE IF mode \notin {"reset", "rollover"}
    THEN [raised |-> "ValueError", db |-> db, obj |-> None]
    ELSE LET env == [id |-> 0, name |-> strip(name), balance |-> base_amount,
                     base_amount |-> base_amount, mode |-> mode,
                     is_active |-> TRUE, archived_at |-> None,
                     transactions |-> <<>>]
         IN  [raised |-> "", db |-> commit(db, <<env>>, now), obj |-> Some(env)]

services_spend(db, envelope_id, amount, note, now) ==
    LET found == session_get(db, envelope_id)
    IN  IF found = None
        THEN [raised |-> "LookupError", db |-> db, obj |-> None]
        ELSE LET r == spend(found[1], amount, note)
             IN  IF r.raised # ""
                 THEN [raised |-> r.raised, db |-> db, obj |-> Some(r.self)]
                 ELSE [raised |-> "", db |-> commit(db, <<r.self>>, now),
                       obj |-> Some(r.self)]

services_deposit(db, envelope_id, amount, note, now) ==
    LET found == session_get(db, envelope_id)
    IN  IF found = None
        THEN [raised |-> "LookupError", db |-> db, obj |-> None]
        ELSE LET r == deposit(found[1], amount, note)
             IN  IF r.raised # ""
                 THEN [raised |-> r.raised, db |-> db, obj |-> Some(r.self)]
                 ELSE [raised |-> "", db |-> commit(db, <<r.self>>, now),
                       obj |-> Some(r.self)]

\* archive_envelope: get_envelope_or_404, envelope.archive(), commit.
archive_envelope(db, envelope_id, now) ==
    LET found == session_get(db, envelope_id)
    IN  IF found = None
        THEN [raised |-> "NotFound", db |-> db, obj |-> None]
        ELSE LET r == archive(found[1], now)
             IN  [raised |-> "", db |-> commit(db, <<r.self>>, now),
                  obj |-> Some(r.self)]

----------------------------------------------------------------------------
(* sync_funding                                                            *)

\* Envelope.query.all(): every row, as instances.
query_all(db) == [i \in DOMAIN db.envelope |-> LoadEnvelope(db, db.envelope[i])]

\* Faulty variant: the pass funds the envelopes and leaves the watermark.
sync_funding_keeps_watermark(db, current_month) ==
    IF db.system_state = <<>>
    THEN [db EXCEPT !.system_state =
             <<[id |-> 1, last_funded_month |-> current_month]>>]
    ELSE LET state == Head(db.system_state)
             month_gap == _month_difference(state.last_funded_month, current_month)
         IN  IF month_gap <= 0
             THEN db
             ELSE LET envelopes == query_all(db)
                      funded == [i \in DOMAIN envelopes |->
                                    apply_funding(envelopes[i], month_gap).self]
                  IN  commit(db, funded, current_month)

\* Faulty variant: the first run funds every envelope for one month.
sync_funding_funds_first_run(db, current_month) ==
    IF db.system_state = <<>>
    THEN LET envelopes == query_all(db)
             funded == [i \in DOMAIN envelopes |->
                           apply_funding(envelopes[i], 1).self]
         IN  [commit(db, funded, current_month) EXCEPT !.system_state =
                 <<[id |-> 1, last_funded_month |-> current_month]>>]
    ELSE LET state == Head(db.system_state)
             month_gap == _month_difference(state.last_funded_month, current_month)
         IN  IF month_gap <= 0
             THEN db
             ELSE LET envelopes == query_all(db)
                      funded == [i \in DOMAIN envelopes |->
                                    apply_funding(envelopes[i], month_gap).self]
                      written == commit(db, funded, current_month)
                  IN  [written EXCEPT
                          !.system_state[1].last_funded_month = current_month]

\* Faulty variant: a pass that funds records the month in a new SystemState
\* row.
sync_funding_adds_state(db, current_month) ==
    IF db.system_state = <<>>
    THEN [db EXCEPT !.system_state =
             <<[id |-> 1, last_funded_month |-> current_month]>>]
    ELSE LET state == Head(db.system_state)
             month_gap == _month_difference(state.last_funded_month, current_month)
         IN  IF month_gap <= 0
             THEN db
             ELSE LET envelopes == query_all(db)
                      funded == [i \in DOMAIN envelopes |->
                                    apply_funding(envelopes[i], month_gap).self]
                      written == commit(db, funded, current_month)
                  IN  [written EXCEPT !.system_state =
                          <<[id |-> Len(db.system_state) + 1,
                             last_funded_month |-> current_month]>>
                          \o db.system_state]

\* Faulty variant: a pass with nothing to fund still records the current
\* month.
sync_funding_always_marks(db, current_month) ==
    IF db.system_state = <<>>
    THEN [db EXCEPT !.system_state =
             <<[id |-> 1, last_funded_month |-> current_month]>>]
    ELSE LET state == Head(db.system_state)
             month_gap == _month_difference(state.last_funded_month, current_month)
         IN  IF month_gap <= 0
             THEN [db EXCEPT !.system_state[1].last_funded_month = current_month]
             ELSE LET envelopes == query_all(db)
                      funded == [i \in DOMAIN envelopes |->
                                    apply_funding(envelopes[i], month_gap).self]
                      written == commit(db, funded, current_month)
                  IN  [written EXCEPT
                          !.system_state[1].last_funded_month = current_month]

\* _sync: result db.
sync_funding(db, current_month) ==
    IF db.system_state = <<>>
    THEN [db EXCEPT !.system_state =
             <<[id |-> 1, last_funded_month |-> current_month]>>]
    ELSE LET state == Head(db.system_state)
             month_gap == _month_difference(state.last_funded_month, current_month)
         IN  IF month_gap <= 0
             THEN db
             ELSE LET envelopes == query_all(db)
                      funded == [i \in DOMAIN envelopes |->
                                    apply_funding(envelopes[i], month_gap).self]
                      written == commit(db, funded, current_month)
                  IN  [written EXCEPT
                          !.system_state[1].last_funded_month = current_month]

----------------------------------------------------------------------------
(* Inputs *)

\* Amounts handed to services.spend and services.deposit: zero, below half a
\* cent, half a cent, 1.00.
Amounts == {0, 4, 5, 1000}

\* base_amount handed to add_envelope: 1.005, which is stored as 1.01.
BaseAmounts == {1005}

\* Amounts handed to Envelope.spend and Envelope.deposit by a direct caller:
\* negative, zero, half a cent, 12.34, 20.00, 60.00.
CallAmounts == {0 - 1000, 0, 5, 12340, 20000, 60000}

\* The instances a direct caller builds: balance 50.00 or 0.00 or overdrawn,
\* base 50.00 or 200.00, either mode.
Instances ==
    {[id |-> 0, name |-> <<82>>, balance |-> b, base_amount |-> a, mode |-> m,
      is_active |-> TRUE, archived_at |-> None, transactions |-> <<>>] :
        b \in {0 - 10000, 0, 50000}, a \in {50000, 200000},
        m \in {"reset", "rollover"}}

\* The envelopes a funding pass may find: each of either mode, base 1000.00
\* or 200.00, balance 0.00 or 300.00, archived or not.
FundingFixtureRows ==
    {[name |-> <<82>>, balance |-> b, base_amount |-> a, mode |-> m,
      is_active |-> TRUE, archived_at |-> t] :
        b \in {0, 300000}, a \in {1000000, 200000},
        m \in {"reset", "rollover"}, t \in {None, Some(FirstMonth)}}

\* (name, mode) handed to add_envelope: accepted ones ("R", and "R" with a
\* tab before and a no-break space after it), a name that is empty, a name of
\* whitespace only (a space and a vertical tab), a mode that is neither reset
\* nor rollover.
NamesAndModes ==
    {<<<<9, 82, 160>>, "reset">>, <<<<82>>, "rollover">>,
     <<<<>>, "reset">>, <<<<32, 11>>, "rollover">>, <<<<82>>, "other">>}

Notes == {None}

\* Envelope ids a caller may name: the stored ones and one that never exists.
EnvelopeIds == 1 .. (MaxEnvelopes + 1)

\* months handed to apply_funding by a direct caller.
MonthCounts == (0 - 1) .. 3

----------------------------------------------------------------------------
(* The record of the last call *)

NoCall == [op |-> "", args |-> [none |-> 0], raised |-> "", before |-> None]

Summary(l) == [op |-> l.op, args |-> l.args, raised |-> l.raised, before |-> l.before]

\* A call on the store: what it was, what it raised, the store before it, and
\* whether the call before it was sync_funding in the same current month.
StoreCall(op, args, raised) ==
    [op |-> op, args |-> args, raised |-> raised, pre |-> Store,
     before |-> None,
     repeat |-> (op = "sync_funding" /\ last.op = "sync_funding"
                 /\ last.args.current_month = args.current_month),
     calls |-> 0, prev |-> NoCall]

\* A call on an instance: what it was, what it raised, the instance before it,
\* and the call before it.
InstanceCall(op, args, raised) ==
    [op |-> op, args |-> args, raised |-> raised, pre |-> EmptyStore,
     before |-> obj, repeat |-> FALSE,
     calls |-> last.calls + 1, prev |-> Summary(last)]

InitialCall ==
    [op |-> "", args |-> [none |-> 0], raised |-> "", pre |-> EmptyStore,
     before |-> None, repeat |-> FALSE, calls |-> 0, prev |-> NoCall]

----------------------------------------------------------------------------
(* The application: a store that starts empty                              *)

Init ==
    /\ envelope = <<>>
    /\ transaction = <<>>
    /\ system_state = <<>>
    /\ clock = FirstMonth
    /\ obj = None
    /\ last = InitialCall
    /\ origin = EmptyStore

\* The rows written since the start, and how many may be written: MaxRows on
\* a store that started empty, MaxLedgerRows on one that started with a ledger.
Rows == (Len(envelope) - Len(origin.envelope))
            + (Len(transaction) - Len(origin.transaction))

RowBudget == IF origin = EmptyStore THEN MaxRows ELSE MaxLedgerRows

Write(db) ==
    /\ envelope' = db.envelope
    /\ transaction' = db.transaction
    /\ system_state' = db.system_state

\* date.today() moves to another month (forward, or backward when the system
\* clock is set back).
Tick ==
    \E m \in Months :
        /\ m # clock
        /\ clock' = m
        /\ UNCHANGED <<envelope, transaction, system_state, obj, last, origin>>

AddEnvelope ==
    \E nm \in NamesAndModes, base_amount \in BaseAmounts :
        LET name == nm[1]
            mode == nm[2]
            r == add_envelope(Store, name, base_amount, mode, clock)
        IN  /\ r.raised # ""
               \/ (/\ Len(envelope) - Len(origin.envelope) < MaxEnvelopes
                   /\ Rows < RowBudget)
            /\ Write(r.db)
            /\ obj' = r.obj
            /\ last' = StoreCall("add_envelope",
                           [name |-> name, base_amount |-> base_amount, mode |-> mode,
                            month |-> get_current_month],
                           r.raised)
            /\ UNCHANGED <<clock, origin>>

Spend ==
    \E envelope_id \in EnvelopeIds, amount \in Amounts, note \in Notes :
        LET r == services_spend(Store, envelope_id, amount, note, clock)
        IN  /\ r.raised # ""
               \/ (/\ Len(transaction) - Len(origin.transaction) < MaxTransactions
                   /\ Rows < RowBudget)
            /\ Write(r.db)
            /\ obj' = r.obj
            /\ last' = StoreCall("spend",
                           [envelope_id |-> envelope_id, amount |-> amount, note |-> note],
                           r.raised)
            /\ UNCHANGED <<clock, origin>>

Deposit ==
    \E envelope_id \in EnvelopeIds, amount \in Amounts, note \in Notes :
        LET r == services_deposit(Store, envelope_id, amount, note, clock)
        IN  /\ r.raised # ""
               \/ (/\ Len(transaction) - Len(origin.transaction) < MaxTransactions
                   /\ Rows < RowBudget)
            /\ Write(r.db)
            /\ obj' = r.obj
            /\ last' = StoreCall("deposit",
                           [envelope_id |-> envelope_id, amount |-> amount, note |-> note],
                           r.raised)
            /\ UNCHANGED <<clock, origin>>

Archive ==
    \E envelope_id \in EnvelopeIds :
        LET r == archive_envelope(Store, envelope_id, clock)
        IN  /\ Write(r.db)
            /\ obj' = r.obj
            /\ last' = StoreCall("archive", [envelope_id |-> envelope_id], r.raised)
            /\ UNCHANGED <<clock, origin>>

SyncFunding ==
    /\ Write(sync_funding(Store, get_current_month))
    /\ obj' = None
    /\ last' = StoreCall("sync_funding", [current_month |-> get_current_month], "")
    /\ UNCHANGED <<clock, origin>>

Next == Tick \/ AddEnvelope \/ Spend \/ Deposit \/ Archive \/ SyncFunding

Spec == Init /\ [][Next]_vars

----------------------------------------------------------------------------
(* The application on a store that already holds a ledger                  *)

\* A store with history: a reset envelope (base 50.00) with a spend of 10.00
\* carrying the note "n" and a deposit of 2.00, a rollover envelope (base
\* 20.00), archived in the first month, with a deposit of 5.00 written
\* between the two, and the watermark of a first sync_funding run in the
\* first month.
LedgerStore ==
    [envelope |->
        <<[id |-> 1, name |-> <<82>>, balance |-> 42000, base_amount |-> 50000,
           mode |-> "reset", is_active |-> TRUE, archived_at |-> None],
          [id |-> 2, name |-> <<82>>, balance |-> 25000, base_amount |-> 20000,
           mode |-> "rollover", is_active |-> TRUE,
           archived_at |-> Some(FirstMonth)]>>,
     transaction |->
        <<[id |-> 1, envelope_id |-> 1, amount |-> 10000, note |-> Some(<<110>>),
           type |-> "spend"],
          [id |-> 2, envelope_id |-> 2, amount |-> 5000, note |-> None,
           type |-> "deposit"],
          [id |-> 3, envelope_id |-> 1, amount |-> 2000, note |-> None,
           type |-> "deposit"]>>,
     system_state |-> <<[id |-> 1, last_funded_month |-> FirstMonth]>>]

InitLedger ==
    /\ envelope = LedgerStore.envelope
    /\ transaction = LedgerStore.transaction
    /\ system_state = LedgerStore.system_state
    /\ clock = FirstMonth
    /\ obj = None
    /\ last = InitialCall
    /\ origin = Store

SpecLedger == InitLedger /\ [][Next]_vars

----------------------------------------------------------------------------
(* The funding clock alone: a store that already holds two envelopes, the  *)
(* transaction that brought each to its balance, and a watermark or none;  *)
(* only the clock and sync_funding act on it                               *)

FundingMonthSeq == MonthsFrom(FirstMonth, FundingMonths)
FundingMonthSet == {FundingMonthSeq[i] : i \in DOMAIN FundingMonthSeq}

\* The one spend or deposit that took an envelope from its first balance
\* (its base amount) to the balance it has.
FixtureTransaction(id, row) ==
    [id |-> id, envelope_id |-> id,
     amount |-> Abs(row.base_amount - row.balance), note |-> None,
     type |-> IF row.balance < row.base_amount THEN "spend" ELSE "deposit"]

InitFunding ==
    /\ \E r1 \in FundingFixtureRows, r2 \in FundingFixtureRows :
          /\ envelope = <<[id |-> 1] @@ r1, [id |-> 2] @@ r2>>
          /\ transaction = <<FixtureTransaction(1, r1), FixtureTransaction(2, r2)>>
    /\ system_state \in
          {<<>>} \cup {<<[id |-> 1, last_funded_month |-> w]>> : w \in FundingMonthSet}
    /\ clock \in FundingMonthSet
    /\ obj = None
    /\ last = InitialCall
    /\ origin = Store

TickFunding ==
    \E m \in FundingMonthSet :
        /\ m # clock
        /\ clock' = m
        /\ UNCHANGED <<envelope, transaction, system_state, obj, last, origin>>

NextFunding == TickFunding \/ SyncFunding

SpecFunding == InitFunding /\ [][NextFunding]_vars

----------------------------------------------------------------------------
(* One Envelope instance and a caller of its methods                       *)

InitEnvelope ==
    /\ envelope = <<>>
    /\ transaction = <<>>
    /\ system_state = <<>>
    /\ clock = FirstMonth
    /\ obj \in {Some(e) : e \in Instances}
    /\ last = InitialCall
    /\ origin = EmptyStore

CallSpend ==
    \E amount \in CallAmounts, note \in Notes :
        LET r == spend(obj[1], amount, note)
        IN  /\ last.calls < MaxCalls
            /\ obj' = Some(r.self)
            /\ last' = InstanceCall("spend", [amount |-> amount, note |-> note],
                                    r.raised)
            /\ UNCHANGED <<envelope, transaction, system_state, clock, origin>>

CallDeposit ==
    \E amount \in CallAmounts, note \in Notes :
        LET r == deposit(obj[1], amount, note)
        IN  /\ last.calls < MaxCalls
            /\ obj' = Some(r.self)
            /\ last' = InstanceCall("deposit", [amount |-> amount, note |-> note],
                                    r.raised)
            /\ UNCHANGED <<envelope, transaction, system_state, clock, origin>>

CallApplyFunding ==
    \E months \in MonthCounts :
        LET r == apply_funding(obj[1], months)
        IN  /\ last.calls < MaxCalls
            /\ obj' = Some(r.self)
            /\ last' = InstanceCall("apply_funding", [months |-> months], r.raised)
            /\ UNCHANGED <<envelope, transaction, system_state, clock, origin>>

CallArchive ==
    LET r == archive(obj[1], clock)
    IN  /\ last.calls < MaxCalls
        /\ obj' = Some(r.self)
        /\ last' = InstanceCall("archive", [now |-> clock], r.raised)
        /\ UNCHANGED <<envelope, transaction, system_state, clock, origin>>

NextEnvelope == Tick \/ CallSpend \/ CallDeposit \/ CallApplyFunding \/ CallArchive

SpecEnvelope == InitEnvelope /\ [][NextEnvelope]_vars

----------------------------------------------------------------------------
(* Vocabulary of the claims *)

\* Month a comes after month b in the calendar.
Later(a, b) == a.year > b.year \/ (a.year = b.year /\ a.month > b.month)

RECURSIVE ElapsedMonths(_, _)
\* The number of calendar months that begin after month a, up to month b,
\* counted one month at a time (0 when b is not after a).
ElapsedMonths(a, b) == IF Later(b, a) THEN 1 + ElapsedMonths(NextMonth(a), b) ELSE 0

\* The watermark of a store that has one.
Watermark(db) == db.system_state[1].last_funded_month

IsSync == last.op = "sync_funding"

\* The instance before and after the last call on it.
Before == last.before[1]
After == obj[1]

\* The transaction a successful Envelope.spend or Envelope.deposit appends.
Appended(type) ==
    [id |-> 0, envelope_id |-> 0, amount |-> last.args.amount,
     note |-> last.args.note, type |-> type]

----------------------------------------------------------------------------
(* C1 .. C5: the funding clock *)

\* C1: sync_funding called twice in a row in the same current month: the
\* second call leaves the store (envelopes, transactions, watermark) exactly
\* as the first call left it.
C1_SyncTwiceSameMonth == (IsSync /\ last.repeat) => Store = last.pre

\* C1 witness: a second call in the same month, after a first call that moved
\* the watermark, on a store holding transactions and a rollover envelope
\* that a second funding would change.
C1_Witness ==
    /\ IsSync /\ last.repeat
    /\ origin.system_state # <<>>
    /\ Watermark(Store) # Watermark(origin)
    /\ \E i \in DOMAIN envelope :
          envelope[i].mode = "rollover" /\ envelope[i].base_amount > 0
    /\ transaction # <<>>

\* C2: over any sequence of sync_funding calls and clock changes from a store
\* with watermark w0, each month elapsed since w0 is funded exactly once: a
\* rollover envelope holds its first balance plus base_amount times the number
\* of months between w0 and the watermark, a reset envelope holds base_amount
\* once a month has elapsed.
C2_EachMonthFundedOnce ==
    origin.system_state # <<>> =>
    \A i \in DOMAIN envelope :
        LET e == envelope[i]
            e0 == origin.envelope[i]
            n == ElapsedMonths(Watermark(origin), Watermark(Store))
        IN  /\ e.mode = "rollover" => e.balance = e0.balance + (e0.base_amount * n)
            /\ (e.mode = "reset" /\ n > 0) => e.balance = e0.base_amount

\* C2 witness: two funding passes have run (the watermark moved, and moved
\* again in the last call), the second catching up more than one month.
C2_Witness ==
    /\ IsSync
    /\ origin.system_state # <<>>
    /\ Watermark(last.pre) # Watermark(origin)
    /\ ElapsedMonths(Watermark(last.pre), Watermark(Store)) > 1
    /\ \E i \in DOMAIN envelope : envelope[i].mode = "rollover"
    /\ \E i \in DOMAIN envelope : envelope[i].mode = "reset"

\* C3: a sync_funding call that finds a watermark earlier than the current
\* month funds every stored envelope, archived or not, for the months elapsed
\* (reset: balance = base_amount; rollover: balance + base_amount x months),
\* and moves the watermark to the current month, in one step; nothing else
\* changes.
C3_CatchUpPass ==
    (IsSync /\ last.pre.system_state # <<>>
            /\ Later(last.args.current_month, Watermark(last.pre)))
    => LET gap == ElapsedMonths(Watermark(last.pre), last.args.current_month)
       IN  /\ DOMAIN envelope = DOMAIN last.pre.envelope
           /\ \A i \in DOMAIN envelope :
                 LET e == last.pre.envelope[i]
                 IN  envelope[i] =
                        [e EXCEPT !.balance =
                            IF e.mode = "reset" THEN e.base_amount
                            ELSE e.balance + (e.base_amount * gap)]
           /\ system_state =
                 <<[id |-> 1, last_funded_month |-> last.args.current_month]>>
           /\ transaction = last.pre.transaction

\* C3 witness: the watermark was 2025-01 and the current month is 2025-03: an
\* archived reset envelope with base 1000.00 went from 300.00 to 1000.00 and a
\* rollover envelope with base 200.00 went from 0.00 to 400.00.
C3_Witness ==
    /\ IsSync /\ last.pre.system_state # <<>>
    /\ Watermark(last.pre) = [year |-> 2025, month |-> 1]
    /\ last.args.current_month = [year |-> 2025, month |-> 3]
    /\ envelope[1].mode = "reset" /\ envelope[1].archived_at # None
    /\ envelope[1].base_amount = 1000000
    /\ last.pre.envelope[1].balance = 300000 /\ envelope[1].balance = 1000000
    /\ envelope[2].mode = "rollover" /\ envelope[2].base_amount = 200000
    /\ last.pre.envelope[2].balance = 0 /\ envelope[2].balance = 400000

\* C4: a sync_funding call that finds no SystemState row creates exactly one,
\* holding the current month, and changes no envelope and no transaction.
C4_FirstRun ==
    (IsSync /\ last.pre.system_state = <<>>)
    => /\ system_state =
             <<[id |-> 1, last_funded_month |-> last.args.current_month]>>
       /\ envelope = last.pre.envelope
       /\ transaction = last.pre.transaction

\* C4 witness: the first run found envelopes of both modes and a transaction.
C4_Witness ==
    /\ IsSync /\ last.pre.system_state = <<>>
    /\ \E i \in DOMAIN envelope : envelope[i].mode = "rollover"
    /\ \E i \in DOMAIN envelope :
          envelope[i].mode = "reset" /\ envelope[i].balance # envelope[i].base_amount
    /\ transaction # <<>>

\* C5: a sync_funding call whose current month is the stored watermark or an
\* earlier month changes nothing: no balance, no transaction, and the
\* watermark keeps its value.
C5_NoGapNoChange ==
    (IsSync /\ last.pre.system_state # <<>>
            /\ ~ Later(last.args.current_month, Watermark(last.pre)))
    => Store = last.pre

\* C5 witness: the clock was set back to a month before the watermark, and the
\* store holds envelopes a funding pass would change.
C5_Witness ==
    /\ IsSync /\ last.pre.system_state # <<>>
    /\ Later(Watermark(last.pre), last.args.current_month)
    /\ \E i \in DOMAIN envelope : envelope[i].mode = "rollover"
    /\ \E i \in DOMAIN envelope :
          envelope[i].mode = "reset" /\ envelope[i].balance # envelope[i].base_amount

----------------------------------------------------------------------------
(* C6 .. C10: the Envelope methods *)

\* C6: apply_funding(months) with months >= 1 succeeds; a reset envelope's
\* balance becomes base_amount whatever it was and whatever months is, a
\* rollover envelope's balance grows by base_amount x months; nothing else
\* of the envelope changes.
C6_ApplyFunding ==
    (last.op = "apply_funding" /\ last.args.months >= 1)
    => /\ last.raised = ""
       /\ Before.mode = "reset" => After.balance = Before.base_amount
       /\ Before.mode = "rollover" =>
             After.balance = Before.balance + (Before.base_amount * last.args.months)
       /\ After = [Before EXCEPT !.balance = After.balance]

\* C6 witness: three months applied to a reset envelope whose balance was not
\* its base amount: the balance is the base amount, not three times it.
C6_Witness ==
    /\ last.op = "apply_funding" /\ last.args.months = 3
    /\ Before.mode = "reset" /\ Before.balance # Before.base_amount
    /\ After.balance = Before.base_amount
    /\ After.balance # Before.base_amount * 3

\* C7: spend (deposit) of an amount a > 0 succeeds whatever the balance is,
\* changes the balance by exactly -a (+a) and appends exactly one transaction
\* of type spend (deposit) with amount a; the balance may become negative.
C7_SpendDepositEffect ==
    /\ (last.op = "spend" /\ last.args.amount > 0)
       => /\ last.raised = ""
          /\ After = [Before EXCEPT
                        !.balance = Before.balance - last.args.amount,
                        !.transactions = Append(Before.transactions, Appended("spend"))]
    /\ (last.op = "deposit" /\ last.args.amount > 0)
       => /\ last.raised = ""
          /\ After = [Before EXCEPT
                        !.balance = Before.balance + last.args.amount,
                        !.transactions = Append(Before.transactions, Appended("deposit"))]

\* C7 witness: a spend larger than the balance went through and left the
\* balance negative.
C7_Witness ==
    /\ last.op = "spend" /\ last.raised = ""
    /\ Before.balance >= 0 /\ last.args.amount > Before.balance
    /\ After.balance < 0
    /\ Len(After.transactions) = Len(Before.transactions) + 1

\* C8: spend and deposit of an amount <= 0 raise ValueError and leave the
\* balance and the transaction list as they were.
C8_NonPositiveAmountRejected ==
    (last.op \in {"spend", "deposit"} /\ last.args.amount <= 0)
    => /\ last.raised = "ValueError"
       /\ After.balance = Before.balance
       /\ After.transactions = Before.transactions

\* C8 witness: spend(0.00) was rejected on an envelope that already carries a
\* transaction.
C8_Witness ==
    /\ last.op = "spend" /\ last.args.amount = 0
    /\ last.raised = "ValueError"
    /\ Before.transactions # <<>>

\* C9: apply_funding(months) with months <= 0 raises ValueError in either
\* mode and leaves the balance as it was.
C9_NonPositiveMonthsRejected ==
    (last.op = "apply_funding" /\ last.args.months <= 0)
    => /\ last.raised = "ValueError"
       /\ After.balance = Before.balance

\* C9 witness: apply_funding(0) was rejected on a reset envelope whose balance
\* is not its base amount.
C9_Witness ==
    /\ last.op = "apply_funding" /\ last.args.months = 0
    /\ last.raised = "ValueError"
    /\ Before.mode = "reset" /\ Before.balance # Before.base_amount

\* C10: spend(a) followed by deposit(a), a > 0, restores the balance exactly
\* and has appended two transactions, a spend and a deposit of amount a.
C10_SpendThenDeposit ==
    (/\ last.op = "deposit" /\ last.raised = ""
     /\ last.prev.op = "spend" /\ last.prev.raised = ""
     /\ last.prev.args.amount = last.args.amount)
    => LET first == last.prev.before[1]
       IN  /\ After.balance = first.balance
           /\ Len(After.transactions) = Len(first.transactions) + 2
           /\ After.transactions[Len(After.transactions) - 1].type = "spend"
           /\ After.transactions[Len(After.transactions) - 1].amount = last.args.amount
           /\ After.transactions[Len(After.transactions)].type = "deposit"
           /\ After.transactions[Len(After.transactions)].amount = last.args.amount

\* C10 witness: half a cent spent from 50.00 and deposited again.
C10_Witness ==
    /\ last.op = "deposit" /\ last.raised = ""
    /\ last.prev.op = "spend" /\ last.prev.raised = ""
    /\ last.prev.args.amount = 5 /\ last.args.amount = 5
    /\ last.prev.before[1].balance = 50000
    /\ After.balance = 50000

----------------------------------------------------------------------------
(* Claims about the services and the stored state                          *)

\* An envelope row with this id is stored in db.
Exists(db, envelope_id) == \E i \in DOMAIN db.envelope : db.envelope[i].id = envelope_id

\* C11: services.spend and services.deposit called with an envelope id that
\* names no stored envelope raise LookupError and leave the envelope table,
\* the transaction table and the system state as they were.
C11_UnknownEnvelope ==
    (last.op \in {"spend", "deposit"} /\ ~Exists(last.pre, last.args.envelope_id))
    => /\ last.raised = "LookupError"
       /\ Store = last.pre

\* C11 witness: 1.00 was to be moved on an id that names no envelope, in a
\* store that holds an envelope and a transaction.
C11_Witness ==
    /\ last.op \in {"spend", "deposit"}
    /\ last.args.amount = 1000
    /\ ~Exists(last.pre, last.args.envelope_id)
    /\ last.pre.envelope # <<>> /\ last.pre.transaction # <<>>
    /\ last.raised = "LookupError"

\* A whitespace character, by code point: the controls U+0009-U+000D and
\* U+001C-U+001F, the space, and the Unicode spaces and line separators.
Blank(c) ==
    \/ c \in 9 .. 13 \/ c \in 28 .. 32
    \/ c \in {133, 160, 5760}
    \/ c \in 8192 .. 8202
    \/ c \in {8232, 8233, 8239, 8287, 12288}

\* A name that keeps at least one character once its whitespace is trimmed.
NonBlank(name) == \E i \in DOMAIN name : ~Blank(name[i])

\* name without its leading and trailing whitespace, for a NonBlank name.
Trimmed(name) ==
    LET first == CHOOSE i \in DOMAIN name :
                     ~Blank(name[i]) /\ \A j \in 1 .. (i - 1) : Blank(name[j])
        final == CHOOSE i \in DOMAIN name :
                     ~Blank(name[i]) /\ \A j \in (i + 1) .. Len(name) : Blank(name[j])
    IN  SubSeq(name, first, final)

\* C12: add_envelope succeeds exactly when the name is not blank and the mode
\* is reset or rollover. On success the envelope table has one more row, at
\* the end, with an id no earlier row has, the trimmed name, the mode, a
\* stored balance equal to the stored base amount (the given amount rounded
\* to cents), no transaction and no archival time; the earlier rows, the
\* transactions and the system state are as before. Otherwise ValueError is
\* raised and the store is as before.
C12_AddEnvelope ==
    (last.op = "add_envelope")
    => LET args == last.args
           accepted == NonBlank(args.name) /\ args.mode \in {"reset", "rollover"}
       IN  IF accepted
           THEN /\ last.raised = ""
                /\ Len(envelope) = Len(last.pre.envelope) + 1
                /\ SubSeq(envelope, 1, Len(last.pre.envelope)) = last.pre.envelope
                /\ LET new == envelope[Len(envelope)]
                   IN  /\ \A i \in DOMAIN last.pre.envelope :
                              last.pre.envelope[i].id # new.id
                       /\ new.name = Trimmed(args.name)
                       /\ new.mode = args.mode
                       /\ new.base_amount = quantize(args.base_amount)
                       /\ new.balance = new.base_amount
                       /\ new.archived_at = None
                       /\ \A j \in DOMAIN transaction :
                              transaction[j].envelope_id # new.id
                /\ transaction = last.pre.transaction
                /\ system_state = last.pre.system_state
           ELSE /\ last.raised = "ValueError"
                /\ Store = last.pre

\* C12 witness: a second envelope was created from the name "R" with a tab
\* before it and a no-break space after it, next to an envelope that has a
\* transaction; it is stored as "R".
C12_Witness ==
    /\ last.op = "add_envelope" /\ last.raised = ""
    /\ last.args.name = <<9, 82, 160>>
    /\ Len(envelope) = 2
    /\ envelope[2].name = <<82>>
    /\ transaction # <<>>

\* An envelope is archived when it carries an archival time.
IsArchived(self) == self.archived_at # None

\* C13: archive never fails; on an envelope that is not archived it records
\* the archival time and changes nothing else; on an archived envelope it
\* changes nothing: the archival time of the first archive, the balance and
\* the transactions stay as they were.
C13_ArchiveIdempotent ==
    (last.op = "archive")
    => /\ last.raised = ""
       /\ IsArchived(After)
       /\ IF IsArchived(Before)
          THEN After = Before
          ELSE After = [Before EXCEPT !.archived_at = Some(last.args.now)]

\* C13 witness: an envelope was archived, the month changed, and it was
\* archived again.
C13_Witness ==
    /\ last.op = "archive" /\ last.prev.op = "archive"
    /\ ~IsArchived(last.prev.before[1])
    /\ IsArchived(Before)
    /\ Before.archived_at # Some(last.args.now)
    /\ After.archived_at = Before.archived_at

\* C14: a sync_funding call leaves the balance of every envelope that was
\* archived before the call as it was, whatever the gap and the mode.
C14_ArchivedNotFunded ==
    IsSync
    => \A i \in DOMAIN last.pre.envelope :
           IsArchived(last.pre.envelope[i])
           => envelope[i].balance = last.pre.envelope[i].balance

RECURSIVE Net(_, _)
\* Deposits minus spends among the stored transactions of an envelope.
Net(rows, envelope_id) ==
    IF rows = <<>> THEN 0
    ELSE LET t == Head(rows)
             signed == IF t.envelope_id # envelope_id THEN 0
                       ELSE IF t.type = "deposit" THEN t.amount
                       ELSE 0 - t.amount
         IN  signed + Net(Tail(rows), envelope_id)

\* C15: as long as sync_funding has never run, the stored balance of every
\* envelope is its stored base amount plus its stored deposits minus its
\* stored spends.
C15_BalanceIsLedger ==
    (system_state = <<>>)
    => \A i \in DOMAIN envelope :
           envelope[i].balance
               = envelope[i].base_amount + Net(transaction, envelope[i].id)

\* C16: no call removes, changes or reorders a stored transaction: the
\* transaction table before the call is a prefix of the table after it, row
\* for row (id, envelope, amount, type, note), so every envelope keeps its
\* transactions in their order; new rows come at the end, with ids above
\* every earlier one.
C16_AppendOnly ==
    /\ Len(last.pre.transaction) <= Len(transaction)
    /\ \A i \in DOMAIN last.pre.transaction :
           transaction[i] = last.pre.transaction[i]
    /\ \A i \in DOMAIN transaction : \A j \in DOMAIN last.pre.transaction :
           i > Len(last.pre.transaction) => transaction[i].id > last.pre.transaction[j].id

\* C16 witness: on the ledger of two envelopes with interleaved transactions
\* (one with a note), a transaction was appended for the first envelope and
\* then one for the second; the three rows of the ledger and the fourth are
\* as they were.
C16_Witness ==
    /\ last.op \in {"spend", "deposit"} /\ last.raised = ""
    /\ origin = LedgerStore
    /\ Len(last.pre.transaction) = 4
    /\ last.pre.transaction[4].envelope_id = 1
    /\ Len(transaction) = 5
    /\ transaction[5].envelope_id = 2 /\ transaction[5].id = 5
    /\ SubSeq(transaction, 1, 3) = LedgerStore.transaction
    /\ transaction[4] = last.pre.transaction[4]

\* C17: every stored transaction has an amount above zero and is of type
\* spend or deposit.
C17_PositiveTransactions ==
    \A i \in DOMAIN transaction :
        /\ transaction[i].amount > 0
        /\ transaction[i].type \in {"spend", "deposit"}

\* C18: the system state holds at most one row; it holds exactly one after
\* any sync_funding call, and a row once stored is never removed.
C18_SingleSystemState ==
    /\ Len(system_state) <= 1
    /\ IsSync => Len(system_state) = 1
    /\ last.pre.system_state # <<>> => Len(system_state) = 1

\* C18 witness: sync_funding has run twice, the second time funding an
\* envelope, and one row is stored.
C18_Witness ==
    /\ IsSync
    /\ last.pre.system_state # <<>>
    /\ last.pre.envelope # envelope
    /\ Len(system_state) = 1

\* C19: add_envelope, spend, deposit and archive leave the system state as it
\* was. A sync_funding call that finds a watermark never moves it to an
\* earlier month, and moves it only when the current month comes after it,
\* then to the current month.
C19_Watermark ==
    /\ last.op \in {"add_envelope", "spend", "deposit", "archive"}
       => system_state = last.pre.system_state
    /\ (IsSync /\ last.pre.system_state # <<>>)
       => /\ ~Later(Watermark(last.pre), Watermark(Store))
          /\ Watermark(Store) # Watermark(last.pre)
             => /\ Later(last.args.current_month, Watermark(last.pre))
                /\ Watermark(Store) = last.args.current_month

\* C19 witness: sync_funding ran in a month before the watermark (the clock
\* was set back) and the watermark stayed.
C19_Witness ==
    /\ IsSync
    /\ last.pre.system_state # <<>>
    /\ Later(Watermark(last.pre), last.args.current_month)
    /\ Watermark(Store) = Watermark(last.pre)

\* A whole number of cents.
Quantized(value) == value % Cent = 0

\* C20: every stored balance, base amount and transaction amount is a whole
\* number of cents; a funding pass, which adds the base amount times a whole
\* number of months to stored values, stores its result without rounding.
C20_StoredMoneyQuantized ==
    /\ \A i \in DOMAIN envelope :
           Quantized(envelope[i].balance) /\ Quantized(envelope[i].base_amount)
    /\ \A i \in DOMAIN transaction : Quantized(transaction[i].amount)
    /\ (/\ IsSync /\ last.pre.system_state # <<>>
        /\ Later(last.args.current_month, Watermark(last.pre)))
       => \A i \in DOMAIN envelope :
              LET old == last.pre.envelope[i]
                  gap == ElapsedMonths(Watermark(last.pre), last.args.current_month)
              IN  envelope[i].balance =
                      IF old.mode = "reset" THEN old.base_amount
                      ELSE old.balance + (old.base_amount * gap)

\* C20 witness: half a cent was spent from an envelope created with a base
\* amount of 1.005; the stored transaction is 0.01 and the stored amounts of
\* the envelope are 1.01.
C20_Witness ==
    /\ last.op = "spend" /\ last.raised = "" /\ last.args.amount = 5
    /\ transaction[Len(transaction)].amount = 10
    /\ \E i \in DOMAIN envelope :
           /\ envelope[i].id = last.args.envelope_id
           /\ envelope[i].base_amount = 1010
           /\ envelope[i].balance = 1010

\* C21: a sync_funding call that funds (a watermark exists and the current
\* month comes after it) leaves the transaction table as it was, and with it
\* the transaction list of every envelope, while balances change.
C21_FundingNotLogged ==
    (/\ IsSync /\ last.pre.system_state # <<>>
     /\ Later(last.args.current_month, Watermark(last.pre)))
    => /\ transaction = last.pre.transaction
       /\ \A i \in DOMAIN envelope :
              TransactionsOf(Store, envelope[i].id)
                  = TransactionsOf(last.pre, envelope[i].id)

\* C21 witness: a pass over a gap of two months raised the balance of a
\* rollover envelope that has a transaction, and the table still holds the
\* two transactions it held.
C21_Witness ==
    /\ IsSync /\ last.pre.system_state # <<>>
    /\ ElapsedMonths(Watermark(last.pre), last.args.current_month) = 2
    /\ \E i \in DOMAIN envelope :
           /\ envelope[i].mode = "rollover"
           /\ envelope[i].balance = last.pre.envelope[i].balance + (2 * envelope[i].base_amount)
           /\ TransactionsOf(Store, envelope[i].id) # <<>>
    /\ Len(transaction) = 2

\* C22: when the last call created a rollover envelope in the current month
\* while the watermark was an earlier month, and sync_funding now runs in
\* that month, the new envelope's balance is still its base amount after the
\* pass.
C22_FundedAfterCreation ==
    [][(/\ last.op = "add_envelope" /\ last.raised = ""
        /\ last.args.mode = "rollover"
        /\ last.args.month = clock
        /\ system_state # <<>>
        /\ Later(clock, Watermark(Store))
        /\ last'.op = "sync_funding")
       => envelope'[Len(envelope)].balance = envelope[Len(envelope)].base_amount]_vars

====
